---- MODULE Spec2Model ----
(***************************************************************************)
(* display/User_Setup.h of home-dash: the TFT_eSPI configuration header of *)
(* the BatController ST7735S 160x128 panel.                                *)
(*                                                                         *)
(* The header is a list of 46 source lines.  The model holds the lines as  *)
(* preprocessing tokens and processes them top to bottom the way the C     *)
(* preprocessor does: comments are removed, an empty line is passed over,  *)
(* a #define enters its replacement list, unexpanded, into the symbol      *)
(* table of the translation unit that includes the header.                 *)
(***************************************************************************)
EXTENDS Integers, Sequences, FiniteSets, TLC

VARIABLES
    hdr,     \* the text of the header: a sequence of lines, each a sequence of tokens
    pc,      \* per translation unit: the number of the line processed next
    symtab,  \* per translation unit: macro name -> [body, line]
    diag     \* per translation unit: the diagnostics issued so far

vars == <<hdr, pc, symtab, diag>>

(***************************************************************************)
(* Preprocessing tokens.  w is always a sequence of strings: the segments  *)
(* of an identifier between its underscores, the characters of a number or *)
(* of a string literal, the spelling of a punctuator, the text of a        *)
(* comment.                                                                *)
(***************************************************************************)
Punct(s) == [k |-> "punct", w |-> <<s>>]
Id(w) == [k |-> "id", w |-> w]
Num(w) == [k |-> "num", w |-> w]
Str(w) == [k |-> "str", w |-> w]
Cmt(s) == [k |-> "comment", w |-> <<s>>]

\* "#define <name>": the first three tokens of a define directive.
Def(name) == <<Punct("#"), Id(<<"define">>), Id(name)>>

(***************************************************************************)
(* The macro names the header spells.                                      *)
(***************************************************************************)
USER_SETUP_INFO == <<"USER", "SETUP", "INFO">>
ST7735_DRIVER == <<"ST7735", "DRIVER">>
TFT_WIDTH == <<"TFT", "WIDTH">>
TFT_HEIGHT == <<"TFT", "HEIGHT">>
LOAD_GLCD == <<"LOAD", "GLCD">>
LOAD_FONT2 == <<"LOAD", "FONT2">>
ST7735_GREENTAB == <<"ST7735", "GREENTAB">>
ST7735_BLACKTAB == <<"ST7735", "BLACKTAB">>
ST7735_REDTAB == <<"ST7735", "REDTAB">>
TFT_RGB_ORDER == <<"TFT", "RGB", "ORDER">>
TFT_BGR == <<"TFT", "BGR">>
TFT_MOSI == <<"TFT", "MOSI">>
TFT_SCLK == <<"TFT", "SCLK">>
TFT_CS == <<"TFT", "CS">>
TFT_DC == <<"TFT", "DC">>
TFT_RST == <<"TFT", "RST">>
TFT_BL == <<"TFT", "BL">>
SPI_FREQUENCY == <<"SPI", "FREQUENCY">>
DISABLE_ALL_LIBRARY_WARNINGS == <<"DISABLE", "ALL", "LIBRARY", "WARNINGS">>

(***************************************************************************)
(* The header, line by line.                                               *)
(***************************************************************************)
\* lines 1-19: the banner, all comments and empty lines
BannerLines ==
    << <<Cmt("                            USER DEFINED SETTINGS")>>,
       <<Cmt("   Set driver type, fonts to be loaded, pins used and SPI control method etc.")>>,
       <<Cmt("")>>,
       <<Cmt("   See the User_Setup_Select.h file if you wish to be able to define multiple")>>,
       <<Cmt("   setups and then easily select which setup file is used by the compiler.")>>,
       <<Cmt("")>>,
       <<Cmt("   If this file is edited correctly then all the library example sketches should")>>,
       <<Cmt("   run without the need to make any more changes for a particular hardware setup!")>>,
       <<Cmt("   Note that some sketches are designed for a particular TFT pixel width/height")>>,
       <<>>,
       <<Cmt(" Define to disable all #warnings in library (can be put in User_Setup_Select.h)")>>,
       <<Cmt("#define DISABLE_ALL_LIBRARY_WARNINGS")>>,
       <<>>,
       <<Cmt(" ##################################################################################")>>,
       <<Cmt("")>>,
       <<Cmt(" Section 1. Call up the right driver file and any options for it")>>,
       <<Cmt("")>>,
       <<Cmt(" ##################################################################################")>>,
       <<>> >>

\* lines 20-22: USER_SETUP_INFO "BatController ST7735 160x128"
InfoLines ==
    << <<Cmt(" === BatController (ST7735S 160x128) ===")>>,
       Def(USER_SETUP_INFO) \o
         <<Str(<<"B", "a", "t", "C", "o", "n", "t", "r", "o", "l", "l", "e", "r", " ",
                 "S", "T", "7", "7", "3", "5", " ",
                 "1", "6", "0", "x", "1", "2", "8">>)>>,
       <<>> >>

\* DriverLines selecting another controller
DriverLinesOtherChip ==
    << Def(<<"ILI9341", "DRIVER">>) >>

\* line 23
DriverLines ==
    << Def(ST7735_DRIVER) >>

\* GeometryLines with the second line naming TFT_WIDTH again
GeometryLinesTwiceWidth ==
    << Def(TFT_WIDTH) \o <<Num(<<"1", "2", "8">>)>>,
       Def(TFT_WIDTH) \o <<Num(<<"1", "6", "0">>)>>,
       <<>> >>

\* GeometryLines of a square 128x128 panel
GeometryLinesSquare ==
    << Def(TFT_WIDTH) \o <<Num(<<"1", "2", "8">>)>>,
       Def(TFT_HEIGHT) \o <<Num(<<"1", "2", "8">>)>>,
       <<>> >>

\* lines 24-26
GeometryLines ==
    << Def(TFT_WIDTH) \o <<Num(<<"1", "2", "8">>)>>,
       Def(TFT_HEIGHT) \o <<Num(<<"1", "6", "0">>)>>,
       <<>> >>

\* lines 27-29
FontLines ==
    << Def(LOAD_GLCD) \o <<Cmt(" Font 1 (classic 8x6) - always good to have")>>,
       Def(LOAD_FONT2) \o <<Cmt(" Font 2 (small 16px) - what we're using in the sketch")>>,
       <<>> >>

\* TabLines with the GREENTAB line left active as well
TabLinesGreenToo ==
    << <<Cmt(" pick ONE tab; GREENTAB is common for 160x128")>>,
       Def(ST7735_GREENTAB),
       Def(ST7735_BLACKTAB),
       <<Cmt(" #define ST7735_REDTAB")>>,
       <<>> >>

\* lines 30-34
TabLines ==
    << <<Cmt(" pick ONE tab; GREENTAB is common for 160x128")>>,
       <<Cmt(" #define ST7735_GREENTAB")>>,
       Def(ST7735_BLACKTAB),
       <<Cmt(" #define ST7735_REDTAB")>>,
       <<>> >>

\* ColourLines with the value misspelt
ColourLinesMisspelt ==
    << <<Cmt(" THIS is the key line for your colors:")>>,
       Def(TFT_RGB_ORDER) \o <<Id(<<"TFT", "GBR">>)>>,
       <<>> >>

\* lines 35-37 (the comment of line 35 opens with a pictograph, left out here)
ColourLines ==
    << <<Cmt(" THIS is the key line for your colors:")>>,
       Def(TFT_RGB_ORDER) \o <<Id(TFT_BGR)>>,
       <<>> >>

\* PinLines with the reset line not connected either
PinLinesNoReset ==
    << <<Cmt(" (keep your working pins)")>>,
       Def(TFT_MOSI) \o <<Num(<<"2", "1">>)>>,
       Def(TFT_SCLK) \o <<Num(<<"2", "2">>)>>,
       Def(TFT_CS) \o <<Punct("-"), Num(<<"1">>)>>,
       Def(TFT_DC) \o <<Num(<<"5">>)>>,
       Def(TFT_RST) \o <<Punct("-"), Num(<<"1">>)>>,
       Def(TFT_BL) \o <<Num(<<"0">>)>>,
       <<>> >>

\* PinLines with DC on the GPIO of RST
PinLinesSharedGpio ==
    << <<Cmt(" (keep your working pins)")>>,
       Def(TFT_MOSI) \o <<Num(<<"2", "1">>)>>,
       Def(TFT_SCLK) \o <<Num(<<"2", "2">>)>>,
       Def(TFT_CS) \o <<Punct("-"), Num(<<"1">>)>>,
       Def(TFT_DC) \o <<Num(<<"1", "7">>)>>,
       Def(TFT_RST) \o <<Num(<<"1", "7">>)>>,
       Def(TFT_BL) \o <<Num(<<"0">>)>>,
       <<>> >>

\* lines 38-45
PinLines ==
    << <<Cmt(" (keep your working pins)")>>,
       Def(TFT_MOSI) \o <<Num(<<"2", "1">>)>>,
       Def(TFT_SCLK) \o <<Num(<<"2", "2">>)>>,
       Def(TFT_CS) \o <<Punct("-"), Num(<<"1">>)>>,
       Def(TFT_DC) \o <<Num(<<"5">>)>>,
       Def(TFT_RST) \o <<Num(<<"1", "7">>)>>,
       Def(TFT_BL) \o <<Num(<<"0">>)>>,
       <<>> >>

\* SpiLines with two more zeros
SpiLinesTwoMoreZeros ==
    << Def(SPI_FREQUENCY) \o
         <<Num(<<"2", "7", "0", "0", "0", "0", "0", "0", "0", "0">>)>> >>

\* line 46
SpiLines ==
    << Def(SPI_FREQUENCY) \o <<Num(<<"2", "7", "0", "0", "0", "0", "0", "0">>)>> >>

Header ==
    BannerLines \o InfoLines \o DriverLines \o GeometryLines \o FontLines
        \o TabLines \o ColourLines \o PinLines \o SpiLines

(***************************************************************************)
(* What a stored replacement list denotes to the library that reads it.    *)
(***************************************************************************)
DigitChars == <<"0", "1", "2", "3", "4", "5", "6", "7", "8", "9">>

IsDigit(c) == \E i \in 1..Len(DigitChars) : DigitChars[i] = c

DigitVal(c) == (CHOOSE i \in 1..Len(DigitChars) : DigitChars[i] = c) - 1

IsDigits(cs) == Len(cs) > 0 /\ \A i \in 1..Len(cs) : IsDigit(cs[i])

\* the largest value of a signed 32-bit int
Int32Max == (2^30 - 1) + 2^30

\* the value of a decimal constant, digit by digit, or -1 once the value
\* no longer fits a signed 32-bit int
RECURSIVE DecValue(_)
DecValue(cs) ==
    IF cs = <<>> THEN 0
    ELSE LET hi == DecValue(SubSeq(cs, 1, Len(cs) - 1))
             d == DigitVal(cs[Len(cs)])
         IN  IF hi < 0 \/ hi > (Int32Max - d) \div 10 THEN -1 ELSE hi * 10 + d

\* a replacement list that is an integer constant, optionally negated:
\* [int: is it one, fits: does it fit 32 bits, v: its value]
NotInt == [int |-> FALSE, fits |-> FALSE, v |-> 0]

IntValue(body) ==
    IF Len(body) = 1 /\ body[1].k = "num" /\ IsDigits(body[1].w)
    THEN IF DecValue(body[1].w) < 0
         THEN [int |-> TRUE, fits |-> FALSE, v |-> 0]
         ELSE [int |-> TRUE, fits |-> TRUE, v |-> DecValue(body[1].w)]
    ELSE IF /\ Len(body) = 2 /\ body[1] = Punct("-")
            /\ body[2].k = "num" /\ IsDigits(body[2].w)
    THEN IF DecValue(body[2].w) < 0
         THEN [int |-> TRUE, fits |-> FALSE, v |-> 0]
         ELSE [int |-> TRUE, fits |-> TRUE, v |-> 0 - DecValue(body[2].w)]
    ELSE NotInt

\* the macros a table holds that the header defined, and their values
Added(tab) == {n \in DOMAIN tab : tab[n].line > 0}

AddedValues(tab) == [n \in Added(tab) |-> tab[n].body]

\* the value of macro n in a table as an integer
IntOf(tab, n) == IF n \in DOMAIN tab THEN IntValue(tab[n].body) ELSE NotInt

(***************************************************************************)
(* The preprocessor's treatment of one line.                               *)
(***************************************************************************)
\* translation phase 3: each comment is replaced by white space
StripComments(line) == SelectSeq(line, LAMBDA t : t.k # "comment")

\* a line with no token left
IsEmpty(line) == StripComments(line) = <<>>

\* a "# define identifier replacement-list" line
IsDefine(line) ==
    LET l == StripComments(line) IN
    /\ Len(l) >= 3
    /\ l[1] = Punct("#")
    /\ l[2] = Id(<<"define">>)
    /\ l[3].k = "id"

MacroName(line) == StripComments(line)[3].w

Replacement(line) == SubSeq(StripComments(line), 4, Len(StripComments(line)))

\* a replacement list with each identifier that names a macro of the table
\* replaced by that macro's replacement list
RECURSIVE Expanded(_, _)
Expanded(tab, body) ==
    IF body = <<>> THEN <<>>
    ELSE (IF Head(body).k = "id" /\ Head(body).w \in DOMAIN tab
          THEN tab[Head(body).w].body
          ELSE <<Head(body)>>) \o Expanded(tab, Tail(body))

\* DefineMacro expanding the replacement list at the point of definition
DefineMacroEager(tab, line, at) ==
    (MacroName(line) :> [body |-> Expanded(tab, Replacement(line)), line |-> at]) @@ tab

\* #define: the replacement list is stored as written, under the macro's
\* name, with the line of the definition; an earlier definition is replaced.
DefineMacro(tab, line, at) ==
    (MacroName(line) :> [body |-> Replacement(line), line |-> at]) @@ tab

\* Diagnose also rejecting a pin number that is no GPIO of the ESP32 (0..39)
\* and not -1
DiagnoseRange(tab, line, at) ==
    IF /\ MacroName(line) \in DOMAIN tab
       /\ tab[MacroName(line)].body # Replacement(line)
    THEN << [line |-> at, name |-> MacroName(line), what |-> "redefined"] >>
    ELSE IF /\ MacroName(line) \in {TFT_MOSI, TFT_SCLK, TFT_CS, TFT_DC, TFT_RST, TFT_BL}
            /\ \/ ~IntValue(Replacement(line)).fits
               \/ IntValue(Replacement(line)).v < -1
               \/ IntValue(Replacement(line)).v > 39
    THEN << [line |-> at, name |-> MacroName(line), what |-> "out of range"] >>
    ELSE << >>

\* the one diagnostic a define directive can draw: the name is already
\* defined with a different replacement list
Diagnose(tab, line, at) ==
    IF /\ MacroName(line) \in DOMAIN tab
       /\ tab[MacroName(line)].body # Replacement(line)
    THEN << [line |-> at, name |-> MacroName(line), what |-> "redefined"] >>
    ELSE << >>

(***************************************************************************)
(* The macros that may be defined before the header is included (on the    *)
(* command line, or by the file that includes it); none is a name the      *)
(* header defines.  line 0 marks a definition made outside the header.     *)
(***************************************************************************)
MaxForeign == 2

ForeignPool ==
    << [name |-> TFT_BGR, body |-> <<Num(<<"0">>)>>],
       [name |-> DISABLE_ALL_LIBRARY_WARNINGS, body |-> <<>>],
       [name |-> <<"TFT", "RGB">>, body |-> <<Num(<<"1">>)>>],
       [name |-> <<"ESP32">>, body |-> <<Num(<<"1">>)>>] >>

ForeignIdx == 1..(IF MaxForeign < Len(ForeignPool) THEN MaxForeign ELSE Len(ForeignPool))

Predefined(S) ==
    [n \in {ForeignPool[i].name : i \in S} |->
        [body |-> (CHOOSE e \in {ForeignPool[i] : i \in S} : e.name = n).body,
         line |-> 0]]

InitialTables == {Predefined(S) : S \in SUBSET ForeignIdx}

(***************************************************************************)
(* The state machine.                                                      *)
(***************************************************************************)
Done(u) == pc[u] > Len(hdr)

Init ==
    /\ hdr = Header
    /\ pc = [u \in {"a"} |-> 1]
    /\ symtab \in [{"a"} -> InitialTables]
    /\ diag = [u \in {"a"} |-> <<>>]

\* an empty line or a line of comments only: nothing happens
SkipLine(u) ==
    /\ ~Done(u)
    /\ IsEmpty(hdr[pc[u]])
    /\ pc' = [pc EXCEPT ![u] = @ + 1]
    /\ UNCHANGED <<hdr, symtab, diag>>

\* a #define line
Define(u) ==
    /\ ~Done(u)
    /\ IsDefine(hdr[pc[u]])
    /\ symtab' = [symtab EXCEPT ![u] = DefineMacro(@, hdr[pc[u]], pc[u])]
    /\ diag' = [diag EXCEPT ![u] = @ \o Diagnose(symtab[u], hdr[pc[u]], pc[u])]
    /\ pc' = [pc EXCEPT ![u] = @ + 1]
    /\ UNCHANGED hdr

Next ==
    \/ \E u \in DOMAIN pc : SkipLine(u)
    \/ \E u \in DOMAIN pc : Define(u)

Spec == Init /\ [][Next]_vars

(***************************************************************************)
(* Properties of the header as written (specification Spec).               *)
(***************************************************************************)
Units == DOMAIN pc

HeaderNames ==
    {USER_SETUP_INFO, ST7735_DRIVER, TFT_WIDTH, TFT_HEIGHT, LOAD_GLCD, LOAD_FONT2,
     ST7735_BLACKTAB, TFT_RGB_ORDER, TFT_MOSI, TFT_SCLK, TFT_CS, TFT_DC, TFT_RST,
     TFT_BL, SPI_FREQUENCY}

PinMacros == {TFT_MOSI, TFT_SCLK, TFT_CS, TFT_DC, TFT_RST, TFT_BL}

TabMacros == {ST7735_GREENTAB, ST7735_BLACKTAB, ST7735_REDTAB}

\* the lines of the pin block
PinBlock == {i \in 1..Len(Header) : 38 <= i /\ i <= 44}

\* C1: starting from a table that holds none of the header's names, every
\* #define of the header targets one of its fifteen names, the name is not
\* defined at that point, and a name once defined keeps its definition: no
\* macro is defined twice, redefined or undefined.
C1_DefinedAtMostOnce ==
    [][\A u \in Units :
        /\ (~Done(u) /\ IsDefine(hdr[pc[u]])) =>
              /\ MacroName(hdr[pc[u]]) \in HeaderNames
              /\ MacroName(hdr[pc[u]]) \notin DOMAIN symtab[u]
        /\ \A n \in DOMAIN symtab[u] :
              n \in DOMAIN symtab'[u] /\ symtab'[u][n] = symtab[u][n]
        /\ diag'[u] = <<>>]_vars

C1_Witness ==
    \E u \in Units :
        /\ Done(u)
        /\ HeaderNames \subseteq Added(symtab[u])
        /\ Cardinality(Added(symtab[u])) = 15

\* C2: once the header is processed, the macros defined by the pin block are
\* exactly the six pin macros, each an integer that is a GPIO number >= 0 or
\* the sentinel -1, and only TFT_CS may hold the sentinel.
C2_SixPins ==
    \A u \in Units : Done(u) =>
        /\ {n \in DOMAIN symtab[u] : symtab[u][n].line \in PinBlock} = PinMacros
        /\ Cardinality({n \in DOMAIN symtab[u] : symtab[u][n].line \in PinBlock}) = 6
        /\ \A n \in PinMacros :
              /\ IntOf(symtab[u], n).int
              /\ IntOf(symtab[u], n).fits
              /\ IntOf(symtab[u], n).v >= -1
        /\ {n \in PinMacros : IntOf(symtab[u], n).v = -1} \subseteq {TFT_CS}
        /\ Cardinality({n \in PinMacros : IntOf(symtab[u], n).v = -1}) <= 1

C2_Witness ==
    \E u \in Units :
        /\ Done(u)
        /\ IntOf(symtab[u], TFT_CS).v = -1
        /\ IntOf(symtab[u], TFT_MOSI).v = 21
        /\ IntOf(symtab[u], TFT_BL).v = 0

\* the characters after the last blank of a text
LastWord(cs) ==
    LET blanks == {i \in 1..Len(cs) : cs[i] = " "}
        from == IF blanks = {} THEN 1
                ELSE (CHOOSE i \in blanks : \A j \in blanks : j <= i) + 1
    IN  SubSeq(cs, from, Len(cs))

\* the two numbers of a text that ends in <digits>x<digits>, as a set;
\* the empty set when the text does not end so
PanelSize(cs) ==
    LET w == LastWord(cs)
        xs == {i \in 1..Len(w) : w[i] = "x"}
    IN  IF Cardinality(xs) # 1 THEN {}
        ELSE LET x == CHOOSE i \in xs : TRUE
                 l == SubSeq(w, 1, x - 1)
                 r == SubSeq(w, x + 1, Len(w))
             IN  IF IsDigits(l) /\ IsDigits(r) THEN {DecValue(l), DecValue(r)} ELSE {}

\* C3: once the header is processed, TFT_WIDTH and TFT_HEIGHT are positive
\* integers, 128 (the short side) and 160 (the long side), and the two are
\* the two numbers of the 160x128 that ends the text of USER_SETUP_INFO.
C3_Geometry ==
    \A u \in Units : Done(u) =>
        LET W == IntOf(symtab[u], TFT_WIDTH)
            H == IntOf(symtab[u], TFT_HEIGHT)
        IN  /\ W.int /\ W.fits /\ W.v > 0
            /\ H.int /\ H.fits /\ H.v > 0
            /\ W.v = 128 /\ H.v = 160 /\ W.v < H.v
            /\ USER_SETUP_INFO \in DOMAIN symtab[u]
            /\ Len(symtab[u][USER_SETUP_INFO].body) = 1
            /\ symtab[u][USER_SETUP_INFO].body[1].k = "str"
            /\ PanelSize(symtab[u][USER_SETUP_INFO].body[1].w) = {W.v, H.v}
            /\ PanelSize(symtab[u][USER_SETUP_INFO].body[1].w) = {160, 128}

C3_Witness ==
    \E u \in Units :
        /\ Done(u)
        /\ IntOf(symtab[u], TFT_WIDTH).v = 128
        /\ IntOf(symtab[u], TFT_HEIGHT).v = 160
        /\ USER_SETUP_INFO \in DOMAIN symtab[u]
        /\ PanelSize(symtab[u][USER_SETUP_INFO].body[1].w) = {128, 160}

\* C4: of the three tab macros only ST7735_BLACKTAB is ever defined: no
\* directive of the header defines ST7735_GREENTAB or ST7735_REDTAB, neither
\* is in the table at any point, and once the header is processed
\* ST7735_BLACKTAB is.
C4_OneTab ==
    \A u \in Units :
        /\ \A i \in 1..Len(hdr) :
              IsDefine(hdr[i]) => MacroName(hdr[i]) \notin {ST7735_GREENTAB, ST7735_REDTAB}
        /\ (DOMAIN symtab[u] \cap TabMacros) \subseteq {ST7735_BLACKTAB}
        /\ Done(u) => (DOMAIN symtab[u] \cap TabMacros) = {ST7735_BLACKTAB}

C4_Witness ==
    \E u \in Units :
        /\ Done(u)
        /\ ST7735_BLACKTAB \in DOMAIN symtab[u]
        /\ symtab[u][ST7735_BLACKTAB].line = 32

\* a driver-selection macro is named <family>_DRIVER, a tab macro <family>_<colour>TAB
IsDriver(n) == n[Len(n)] = "DRIVER"

IsTab(n) == n[Len(n)] \in {"GREENTAB", "BLACKTAB", "REDTAB"}

Family(n) == n[1]

\* C5: once the header is processed, ST7735_DRIVER is the one driver macro
\* it defined, it defined a tab macro, and every tab macro it defined is of
\* the family of that driver.
C5_DriverAndTab ==
    \A u \in Units : Done(u) =>
        /\ {n \in Added(symtab[u]) : IsDriver(n)} = {ST7735_DRIVER}
        /\ Cardinality({n \in Added(symtab[u]) : IsDriver(n)}) = 1
        /\ \E t \in Added(symtab[u]) : IsTab(t)
        /\ \A t \in Added(symtab[u]) : IsTab(t) =>
              \E d \in Added(symtab[u]) : IsDriver(d) /\ Family(d) = Family(t)

C5_Witness ==
    \E u \in Units :
        /\ Done(u)
        /\ ST7735_DRIVER \in Added(symtab[u])
        /\ ST7735_BLACKTAB \in Added(symtab[u])
        /\ Family(ST7735_BLACKTAB) = Family(ST7735_DRIVER)

\* C6: once the header is processed, TFT_RGB_ORDER is defined, its value is
\* one of the identifiers TFT_RGB and TFT_BGR, and it is TFT_BGR.
C6_ColourOrder ==
    \A u \in Units : Done(u) =>
        /\ TFT_RGB_ORDER \in DOMAIN symtab[u]
        /\ symtab[u][TFT_RGB_ORDER].body \in {<<Id(<<"TFT", "RGB">>)>>, <<Id(TFT_BGR)>>}
        /\ symtab[u][TFT_RGB_ORDER].body = <<Id(TFT_BGR)>>

C6_Witness ==
    \E u \in Units :
        /\ Done(u)
        /\ TFT_RGB_ORDER \in DOMAIN symtab[u]
        /\ symtab[u][TFT_RGB_ORDER].line = 36
        /\ TFT_BGR \in DOMAIN symtab[u]

\* C9: once the header is processed, the pin macros that do not hold the
\* sentinel are TFT_MOSI, TFT_SCLK, TFT_DC, TFT_RST and TFT_BL, and no two of
\* them hold the same GPIO number.
C9_DistinctGpios ==
    \A u \in Units : Done(u) =>
        LET wired == {n \in PinMacros :
                         IntOf(symtab[u], n).int /\ IntOf(symtab[u], n).v # -1}
        IN  /\ wired = {TFT_MOSI, TFT_SCLK, TFT_DC, TFT_RST, TFT_BL}
            /\ \A m, n \in wired :
                  m # n => IntOf(symtab[u], m).v # IntOf(symtab[u], n).v

C9_Witness ==
    \E u \in Units :
        /\ Done(u)
        /\ IntOf(symtab[u], TFT_DC).v = 5
        /\ IntOf(symtab[u], TFT_RST).v = 17
        /\ IntOf(symtab[u], TFT_SCLK).v = 22

\* C10: once the header is processed, SPI_FREQUENCY is a positive integer,
\* 27000000, that fits a signed 32-bit int.
C10_SpiFrequency ==
    \A u \in Units : Done(u) =>
        /\ IntOf(symtab[u], SPI_FREQUENCY).int
        /\ IntOf(symtab[u], SPI_FREQUENCY).fits
        /\ IntOf(symtab[u], SPI_FREQUENCY).v > 0
        /\ IntOf(symtab[u], SPI_FREQUENCY).v = 27000000
        /\ IntOf(symtab[u], SPI_FREQUENCY).v <= Int32Max

C10_Witness ==
    \E u \in Units :
        /\ Done(u)
        /\ SPI_FREQUENCY \in DOMAIN symtab[u]
        /\ symtab[u][SPI_FREQUENCY].line = 46
        /\ IntOf(symtab[u], SPI_FREQUENCY).v = 27000000

(***************************************************************************)
(* Two translation units that include the header, each starting from its   *)
(* own table (specification SpecPair).                                     *)
(***************************************************************************)
InitPair ==
    /\ hdr = Header
    /\ pc = [u \in {"a", "b"} |-> 1]
    /\ symtab \in [{"a", "b"} -> InitialTables]
    /\ diag = [u \in {"a", "b"} |-> <<>>]

SpecPair == InitPair /\ [][Next]_vars

RECURSIVE Digits(_)
Digits(n) ==
    IF n < 10 THEN <<DigitChars[n + 1]>>
    ELSE Digits(n \div 10) \o <<DigitChars[(n % 10) + 1]>>

\* the tokens that spell an integer
IntTokens(v) == IF v < 0 THEN <<Punct("-"), Num(Digits(0 - v))>> ELSE <<Num(Digits(v))>>

\* the values tried.  Pins: not connected, two pins on one GPIO, no GPIO of
\* the chip.  Geometry: the panel's, and a panel of no width and no height.
\* Driver and tab: another tab of the driver, and the tab of the header
\* under a driver of another family.
SubstPinValues == {-1, 17, 99}

SubstGeometry == {<<128, 160>>, <<0, 0>>}

SubstDriverTab ==
    {<<ST7735_DRIVER, ST7735_REDTAB>>, <<<<"ILI9341", "DRIVER">>, ST7735_BLACKTAB>>}

\* the header with its driver, tab, geometry and pin lines rewritten
Substituted(drv, tabm, w, h, pins) ==
    [i \in 1..Len(Header) |->
        IF ~IsDefine(Header[i]) THEN Header[i]
        ELSE IF MacroName(Header[i]) \in PinMacros
             THEN Def(MacroName(Header[i])) \o IntTokens(pins[MacroName(Header[i])])
        ELSE IF MacroName(Header[i]) = TFT_WIDTH THEN Def(TFT_WIDTH) \o IntTokens(w)
        ELSE IF MacroName(Header[i]) = TFT_HEIGHT THEN Def(TFT_HEIGHT) \o IntTokens(h)
        ELSE IF MacroName(Header[i]) = ST7735_DRIVER THEN Def(drv)
        ELSE IF MacroName(Header[i]) = ST7735_BLACKTAB THEN Def(tabm)
        ELSE Header[i]]

SubstHeaders ==
    {Substituted(dt[1], dt[2], g[1], g[2], pins) :
        dt \in SubstDriverTab, g \in SubstGeometry, pins \in [PinMacros -> SubstPinValues]}

InitSubst ==
    /\ hdr \in SubstHeaders
    /\ pc = [u \in {"a"} |-> 1]
    /\ symtab = [u \in {"a"} |-> Predefined({})]
    /\ diag = [u \in {"a"} |-> <<>>]

SpecSubst == InitSubst /\ [][Next]_vars

\* C8: whatever pin numbers, width, height, driver and tab are written into
\* the header's #define lines, processing never stops before the end, issues
\* no diagnostic, and every #define line passed has its macro in the table
\* with the replacement list exactly as written.
C8_NoValidation ==
    \A u \in Units :
        /\ diag[u] = <<>>
        /\ ~Done(u) => (IsEmpty(hdr[pc[u]]) \/ IsDefine(hdr[pc[u]]))
        /\ \A i \in 1..(pc[u] - 1) :
              IsDefine(hdr[i]) =>
                  /\ MacroName(hdr[i]) \in DOMAIN symtab[u]
                  /\ symtab[u][MacroName(hdr[i])].body = Replacement(hdr[i])
                  /\ symtab[u][MacroName(hdr[i])].line = i

C8_Witness ==
    \E u \in Units :
        /\ Done(u)
        /\ IntOf(symtab[u], TFT_MOSI).v = 99
        /\ IntOf(symtab[u], TFT_DC).v = 17
        /\ IntOf(symtab[u], TFT_RST).v = 17
        /\ IntOf(symtab[u], TFT_WIDTH).v = 0
        /\ <<"ILI9341", "DRIVER">> \in DOMAIN symtab[u]
        /\ ST7735_BLACKTAB \in DOMAIN symtab[u]

====
